---- MODULE Spec2Model ----
(***************************************************************************)
(* py4dgeo adapters PCLPointCloud and NFPointCloud2 (src/src/py4dgeo.cpp). *)
(*                                                                         *)
(* A caller owns a flat buffer of coordinates and builds one adapter over  *)
(* it; afterwards it calls build_tree and radius_search on the adapter and *)
(* may overwrite its own buffer.  The wrapped libraries (PCL search        *)
(* structures, nanoflann index) are the environment: each library call is  *)
(* recorded with the arguments the adapter hands over, and its answer is   *)
(* any answer the library's documented radius contract permits.  Library   *)
(* calls are taken to return normally.  Coordinates and radii are small    *)
(* integers, so float rounding is not part of the model.                   *)
(***************************************************************************)
EXTENDS Integers, FiniteSets, Sequences, TLC

\* ---------------------------------------------------------------- bounds
MaxN == 2          \* most points a caller passes as n
MaxR == 2          \* radii are -1..MaxR
MaxLeaf == 2       \* leaf sizes are 1..MaxLeaf
MaxWrites == 1     \* times the caller overwrites a coordinate after construction
MaxCoord == 1      \* SpecCtor draws the buffer's coordinates from 0..MaxCoord

\* ---------------------------------------------------- program constants
OctreeResolution == 128
KDTreeDim == 3

VARIABLES
  adapter,      \* which adapter class the caller constructed
  buf,          \* the caller's coordinate buffer, as it is now
  writes,       \* how often the caller has overwritten a coordinate
  ctor_buf,     \* history: the buffer contents when the constructor ran
  ctor_n,       \* history: the n given to the constructor
  pcl_cloud,    \* PCLPointCloud::_cloud, points 0..n-1
  pcl_reads,    \* history: the buffer indices PCLPointCloud's constructor read
  pcl_search,   \* PCLPointCloud::_search
  nf_data,      \* NFPointCloud2::data (an address)
  nf_n,         \* NFPointCloud2::n
  nf_search,    \* NFPointCloud2::_search
  last,         \* the last call: what the caller gave, what the library got and answered
  fault,        \* "none", or the adapter's own error that has happened
  crashed       \* the process died

vars == << adapter, buf, writes, ctor_buf, ctor_n, pcl_cloud, pcl_reads, pcl_search,
           nf_data, nf_n, nf_search, last, fault, crashed >>

\* ------------------------------------------------------------ data types
BufLen == 3 * MaxN

PointXYZ(x, y, z) == [x |-> x, y |-> y, z |-> z]

SqDist(a, b) ==
  (a.x - b.x) * (a.x - b.x) + (a.y - b.y) * (a.y - b.y) + (a.z - b.z) * (a.z - b.z)

\* The caller's buffer lives at this address; a null pointer is address 0.
BufAddr == 1

\* The strategy values build_tree tests for, and "other" for any value that is
\* none of them.
SearchStrategy == {"kdtree", "octree", "bruteforce", "other"}

NullPCLSearch == [ptr |-> 0, kind |-> "none", resolution |-> 0, input |-> "none"]

NullNFSearch == [ptr |-> 0, dim |-> 0, leaf |-> 0, dataset |-> "none", built |-> FALSE, tree |-> << >>]

\* shared_ptr::reset(new T) / make_shared: the new object is allocated while the
\* old one is still alive, so its address differs from the old one's.
FreshPtr(old) == IF old = 1 THEN 2 ELSE 1

NoCall == [op |-> "none", strategy |-> "none", leaf |-> 0,
           query |-> PointXYZ(0, 0, 0), r |-> 0,
           target |-> 0, libquery |-> PointXYZ(0, 0, 0), libr |-> 0,
           libret |-> {}, libcount |-> 0, ret |-> 0, result |-> {}]

\* ------------------------------------------------------- the caller's inputs
\* The buffer the caller starts with: point i is (i, i+1, i+2), so the three
\* coordinates of a point differ, and so do the points.
Ramp == [j \in 0..(BufLen - 1) |-> (j \div 3) + (j % 3)]

\* The coordinate the caller overwrites later: the x of its first point.
Writable == {0}

\* Query points: the buffer's first point as constructed, shifted along x.
Queries == {PointXYZ(ctor_buf[0] + d, ctor_buf[1], ctor_buf[2]) : d \in {0, 1, 2}}

Radii == (-1)..MaxR

Leaves == 1..MaxLeaf

\* ------------------------------------------------------------- PCLPointCloud
RECURSIVE PCLFill(_, _, _, _)
PCLFill(ptr, n, i, acc) ==
  IF i < n
  THEN PCLFill(ptr, n, i + 1,
               [cloud |-> [acc.cloud EXCEPT
                             ![i] = PointXYZ(ptr[3 * i], ptr[3 * i + 1], ptr[3 * i + 2])],
                reads |-> acc.reads \cup {3 * i, 3 * i + 1, 3 * i + 2}])
  ELSE acc

\* faulty variant: the loop strides by one coordinate instead of three
RECURSIVE PCLFill_stride1(_, _, _, _)
PCLFill_stride1(ptr, n, i, acc) ==
  IF i < n
  THEN PCLFill_stride1(ptr, n, i + 1,
               [cloud |-> [acc.cloud EXCEPT
                             ![i] = PointXYZ(ptr[i], ptr[i + 1], ptr[i + 2])],
                reads |-> acc.reads \cup {i, i + 1, i + 2}])
  ELSE acc

PCLPointCloud_stride1(ptr, n) ==
  PCLFill_stride1(ptr, n, 0,
          [cloud |-> [i \in 0..(n - 1) |-> PointXYZ(0, 0, 0)], reads |-> {}])

\* The constructor: resize(n), then one point per i from ptr[3i], ptr[3i+1], ptr[3i+2].
PCLPointCloud(ptr, n) ==
  PCLFill(ptr, n, 0,
          [cloud |-> [i \in 0..(n - 1) |-> PointXYZ(0, 0, 0)], reads |-> {}])

\* faulty variant: the kdtree and octree branches are exchanged
PCLSelect_swapped(search, strategy) ==
  LET s1 == IF strategy = "octree"
            THEN [ptr |-> FreshPtr(search.ptr), kind |-> "KdTree",
                  resolution |-> 0, input |-> "none"]
            ELSE search
      s2 == IF strategy = "kdtree"
            THEN [ptr |-> FreshPtr(s1.ptr), kind |-> "Octree",
                  resolution |-> OctreeResolution, input |-> "none"]
            ELSE s1
      s3 == IF strategy = "bruteforce"
            THEN [ptr |-> FreshPtr(s2.ptr), kind |-> "BruteForce",
                  resolution |-> 0, input |-> "none"]
            ELSE s2
  IN s3

\* faulty variant: a structure is created only while none is installed
PCLSelect_keep_first(search, strategy) ==
  IF search.ptr # 0
  THEN search
  ELSE IF strategy = "kdtree"
       THEN [ptr |-> FreshPtr(search.ptr), kind |-> "KdTree",
             resolution |-> 0, input |-> "none"]
       ELSE IF strategy = "octree"
            THEN [ptr |-> FreshPtr(search.ptr), kind |-> "Octree",
                  resolution |-> OctreeResolution, input |-> "none"]
            ELSE IF strategy = "bruteforce"
                 THEN [ptr |-> FreshPtr(search.ptr), kind |-> "BruteForce",
                       resolution |-> 0, input |-> "none"]
                 ELSE search

\* The three ifs of build_tree: each resets _search when the strategy matches.
PCLSelect(search, strategy) ==
  LET s1 == IF strategy = "kdtree"
            THEN [ptr |-> FreshPtr(search.ptr), kind |-> "KdTree",
                  resolution |-> 0, input |-> "none"]
            ELSE search
      s2 == IF strategy = "octree"
            THEN [ptr |-> FreshPtr(s1.ptr), kind |-> "Octree",
                  resolution |-> OctreeResolution, input |-> "none"]
            ELSE s1
      s3 == IF strategy = "bruteforce"
            THEN [ptr |-> FreshPtr(s2.ptr), kind |-> "BruteForce",
                  resolution |-> 0, input |-> "none"]
            ELSE s2
  IN s3

\* faulty variant: the new structure is never given the cloud
SetInputCloud_skipped(search) == search

\* _search->setInputCloud(_cloud)
SetInputCloud(search) == [search EXCEPT !.input = "_cloud"]

\* faulty variant: the radius is squared for this backend too
PCLRadiusArg_squared(r) == r * r

\* The radius PCLPointCloud::radius_search hands to the library.
PCLRadiusArg(r) == r

\* ------------------------------------------------------------- NFPointCloud2
\* The constructor stores the pointer and n; no coordinate is copied.
NFPointCloud2(ptr, n) == [data |-> ptr, n |-> n]

\* What is stored at an address: the caller's buffer as it is now.
Deref(addr) == buf

\* The dataset the index reads through the adapter: point i is data[3i..3i+2].
NFPoints ==
  [i \in 0..(nf_n - 1) |->
     PointXYZ(Deref(nf_data)[3 * i], Deref(nf_data)[3 * i + 1], Deref(nf_data)[3 * i + 2])]

\* std::make_shared<KDTree>(3, *this, KDTreeSingleIndexAdaptorParams(leaf))
NFMakeIndex(search, leaf) ==
  [ptr |-> FreshPtr(search.ptr), dim |-> KDTreeDim, leaf |-> leaf,
   dataset |-> "this", built |-> FALSE, tree |-> << >>]

\* _search->buildIndex(): the tree is built over the dataset as it is at the call.
BuildIndex(search, pts) == [search EXCEPT !.built = TRUE, !.tree = pts]

\* faulty variant: the radius is handed over unsquared
NFRadiusArg_unsquared(radius) == radius

\* The search bound NFPointCloud2::radius_search hands to the library.
NFRadiusArg(radius) == radius * radius

\* ------------------------------------------------- the wrapped libraries
FloorSqrt(s) == CHOOSE k \in 0..s : k * k <= s /\ (k + 1) * (k + 1) > s

CeilSqrt(s) == CHOOSE k \in 0..s : k * k >= s /\ (k = 0 \/ (k - 1) * (k - 1) < s)

Abs(r) == IF r < 0 THEN 0 - r ELSE r

\* An answer: the pairs (index, squared distance) of the reported points.
Answer(pts, q, S) == {<<i, SqDist(pts[i], q)>> : i \in S}

\* PCL's radiusSearch(p, r, indices, dist) takes a Euclidean radius.  Every point
\* nearer than r is reported and no point farther than |r| is; whether a point
\* exactly at distance r is reported, and what a negative r does, is the
\* library's business, so every such answer is possible.
PCLLibRadiusSearch(cloud, p, r) ==
  LET must == {i \in DOMAIN cloud : FloorSqrt(SqDist(cloud[i], p)) < r}
      may  == {i \in DOMAIN cloud : CeilSqrt(SqDist(cloud[i], p)) <= Abs(r)}
  IN {Answer(cloud, p, S) : S \in {T \in SUBSET may : must \subseteq T}}

\* nanoflann's radiusSearch(query, bound, result, params) compares squared
\* distances with the bound it is given.  Over an index built from the dataset
\* as it is now, every point with squared distance below the bound is reported
\* and none above it; over an index built from other contents the answer is
\* any set of the dataset's points.
NFLibRadiusSearch(search, pts, q, bound) ==
  LET must == {i \in DOMAIN pts : SqDist(pts[i], q) < bound}
      may  == {i \in DOMAIN pts : SqDist(pts[i], q) <= bound}
  IN IF search.tree = pts
     THEN {Answer(pts, q, S) : S \in {T \in SUBSET may : must \subseteq T}}
     ELSE {Answer(pts, q, S) : S \in SUBSET (DOMAIN pts)}

\* ------------------------------------------------------------------ Init
\* Before construction: the caller holds a buffer, no adapter exists yet.
NoAdapter(b) ==
  /\ adapter = "none"
  /\ buf = b
  /\ writes = 0
  /\ ctor_buf = b
  /\ ctor_n = 0
  /\ pcl_cloud = << >>
  /\ pcl_reads = {}
  /\ pcl_search = NullPCLSearch
  /\ nf_data = 0
  /\ nf_n = 0
  /\ nf_search = NullNFSearch
  /\ last = NoCall
  /\ fault = "none"
  /\ crashed = FALSE

Init == NoAdapter(Ramp)

\* Every buffer over the coordinates 0..MaxCoord.
InitAnyBuffer == \E b \in [0..(BufLen - 1) -> 0..MaxCoord] : NoAdapter(b)

\* ------------------------------------------------------------- actions
\* `_search->...` with _search null: undefined behaviour.  The process dies, or
\* the call comes back with a meaningless value and nothing written.
NullDeref(call) ==
  /\ fault' = "null_handle"
  /\ \E dies \in BOOLEAN, garbage \in 0..1 :
       /\ crashed' = dies
       /\ last' = [call EXCEPT !.target = 0, !.ret = IF dies THEN 0 ELSE garbage]
  /\ UNCHANGED << adapter, buf, writes, ctor_buf, ctor_n, pcl_cloud, pcl_reads,
                  pcl_search, nf_data, nf_n, nf_search >>

\* PCLPointCloud(ptr, n) or NFPointCloud2(ptr, n) over the caller's buffer.
\* Neither constructor touches _search, which starts out null.
Construct(a, n) ==
  /\ adapter = "none"
  /\ adapter' = a
  /\ ctor_buf' = buf
  /\ ctor_n' = n
  /\ IF a = "PCLPointCloud"
     THEN /\ pcl_cloud' = PCLPointCloud(buf, n).cloud
          /\ pcl_reads' = PCLPointCloud(buf, n).reads
          /\ UNCHANGED << nf_data, nf_n >>
     ELSE /\ nf_data' = NFPointCloud2(BufAddr, n).data
          /\ nf_n' = NFPointCloud2(BufAddr, n).n
          /\ UNCHANGED << pcl_cloud, pcl_reads >>
  /\ last' = [NoCall EXCEPT !.op = "construct"]
  /\ UNCHANGED << buf, writes, pcl_search, nf_search, fault, crashed >>

PCL_build_tree(strategy) ==
  /\ adapter = "PCLPointCloud"
  /\ ~crashed
  /\ LET sel  == PCLSelect(pcl_search, strategy)
         call == [NoCall EXCEPT !.op = "PCL::build_tree", !.strategy = strategy]
     IN IF sel.ptr = 0
        THEN NullDeref(call)
        ELSE /\ pcl_search' = SetInputCloud(sel)
             /\ last' = [call EXCEPT !.target = sel.ptr]
             /\ UNCHANGED << adapter, buf, writes, ctor_buf, ctor_n, pcl_cloud, pcl_reads,
                             nf_data, nf_n, nf_search, fault, crashed >>

\* faulty variant: the search runs over the caller's buffer as it is now, as if the
\* cloud aliased the buffer instead of holding a copy
PCL_radius_search_over_buffer(p, r) ==
  /\ adapter = "PCLPointCloud"
  /\ ~crashed
  /\ LET call == [NoCall EXCEPT !.op = "PCL::radius_search", !.query = p, !.r = r]
         live == [i \in DOMAIN pcl_cloud |->
                    PointXYZ(buf[3 * i], buf[3 * i + 1], buf[3 * i + 2])]
     IN IF pcl_search.ptr = 0
        THEN NullDeref(call)
        ELSE /\ \E ans \in PCLLibRadiusSearch(live, p, PCLRadiusArg(r)) :
                  last' = [call EXCEPT !.target = pcl_search.ptr,
                                       !.libquery = p, !.libr = PCLRadiusArg(r),
                                       !.libret = ans, !.libcount = Cardinality(ans),
                                       !.ret = Cardinality(ans), !.result = ans]
             /\ UNCHANGED << adapter, buf, writes, ctor_buf, ctor_n, pcl_cloud, pcl_reads,
                             pcl_search, nf_data, nf_n, nf_search, fault, crashed >>

PCL_radius_search(p, r) ==
  /\ adapter = "PCLPointCloud"
  /\ ~crashed
  /\ LET call == [NoCall EXCEPT !.op = "PCL::radius_search", !.query = p, !.r = r]
     IN IF pcl_search.ptr = 0
        THEN NullDeref(call)
        ELSE /\ \E ans \in PCLLibRadiusSearch(pcl_cloud, p, PCLRadiusArg(r)) :
                  last' = [call EXCEPT !.target = pcl_search.ptr,
                                       !.libquery = p, !.libr = PCLRadiusArg(r),
                                       !.libret = ans, !.libcount = Cardinality(ans),
                                       !.ret = Cardinality(ans), !.result = ans]
             /\ UNCHANGED << adapter, buf, writes, ctor_buf, ctor_n, pcl_cloud, pcl_reads,
                             pcl_search, nf_data, nf_n, nf_search, fault, crashed >>

NF_build_tree(leaf) ==
  /\ adapter = "NFPointCloud2"
  /\ ~crashed
  /\ LET made == NFMakeIndex(nf_search, leaf)
     IN /\ nf_search' = BuildIndex(made, NFPoints)
        /\ last' = [NoCall EXCEPT !.op = "NF::build_tree", !.leaf = leaf,
                                  !.target = made.ptr]
  /\ UNCHANGED << adapter, buf, writes, ctor_buf, ctor_n, pcl_cloud, pcl_reads,
                  pcl_search, nf_data, nf_n, fault, crashed >>

\* faulty variant: the index is rebuilt before every search
NF_radius_search_rebuilds(query, radius) ==
  /\ adapter = "NFPointCloud2"
  /\ ~crashed
  /\ LET call == [NoCall EXCEPT !.op = "NF::radius_search", !.query = query, !.r = radius]
         again == BuildIndex(NFMakeIndex(nf_search, nf_search.leaf), NFPoints)
     IN IF nf_search.ptr = 0
        THEN NullDeref(call)
        ELSE /\ \E ans \in NFLibRadiusSearch(again, NFPoints, query,
                                            NFRadiusArg(radius)) :
                  last' = [call EXCEPT !.target = again.ptr,
                                       !.libquery = query, !.libr = NFRadiusArg(radius),
                                       !.libret = ans, !.libcount = Cardinality(ans),
                                       !.ret = Cardinality(ans), !.result = ans]
             /\ nf_search' = again
             /\ UNCHANGED << adapter, buf, writes, ctor_buf, ctor_n, pcl_cloud, pcl_reads,
                             pcl_search, nf_data, nf_n, fault, crashed >>

NF_radius_search(query, radius) ==
  /\ adapter = "NFPointCloud2"
  /\ ~crashed
  /\ LET call == [NoCall EXCEPT !.op = "NF::radius_search", !.query = query, !.r = radius]
     IN IF nf_search.ptr = 0
        THEN NullDeref(call)
        ELSE /\ \E ans \in NFLibRadiusSearch(nf_search, NFPoints, query,
                                            NFRadiusArg(radius)) :
                  last' = [call EXCEPT !.target = nf_search.ptr,
                                       !.libquery = query, !.libr = NFRadiusArg(radius),
                                       !.libret = ans, !.libcount = Cardinality(ans),
                                       !.ret = Cardinality(ans), !.result = ans]
             /\ UNCHANGED << adapter, buf, writes, ctor_buf, ctor_n, pcl_cloud, pcl_reads,
                             pcl_search, nf_data, nf_n, nf_search, fault, crashed >>

\* The caller overwrites one coordinate of its own buffer.
WriteBuffer(j) ==
  /\ adapter # "none"
  /\ ~crashed
  /\ writes < MaxWrites
  /\ buf' = [buf EXCEPT ![j] = @ + 1]
  /\ writes' = writes + 1
  /\ last' = [NoCall EXCEPT !.op = "write"]
  /\ UNCHANGED << adapter, ctor_buf, ctor_n, pcl_cloud, pcl_reads, pcl_search,
                  nf_data, nf_n, nf_search, fault, crashed >>

Adapters == {"PCLPointCloud", "NFPointCloud2"}

Next ==
  \/ \E a \in Adapters, n \in 0..MaxN : Construct(a, n)
  \/ \E strategy \in SearchStrategy : PCL_build_tree(strategy)
  \/ \E p \in Queries, r \in Radii : PCL_radius_search(p, r)
  \/ \E leaf \in Leaves : NF_build_tree(leaf)
  \/ \E q \in Queries, r \in Radii : NF_radius_search(q, r)
  \/ \E j \in Writable : WriteBuffer(j)

Spec == Init /\ [][Next]_vars

\* The constructors alone, over every buffer.
NextCtor == \E a \in Adapters, n \in 0..MaxN : Construct(a, n)

SpecCtor == InitAnyBuffer /\ [][NextCtor]_vars

\* =================================================================== claims
\* The points a buffer b holds for a count n, read off the claim's statement:
\* point i is (b[3i], b[3i+1], b[3i+2]).
ExpectedPoints(b, n) ==
  [i \in 0..(n - 1) |-> PointXYZ(b[3 * i], b[3 * i + 1], b[3 * i + 2])]

ValidStrategies == {"kdtree", "octree", "bruteforce"}

KindOf(strategy) ==
  CASE strategy = "kdtree" -> "KdTree"
    [] strategy = "octree" -> "Octree"
    [] strategy = "bruteforce" -> "BruteForce"
    [] OTHER -> "none"

\* The indices an answer reports.
Reported(ans) == {e[1] : e \in ans}

\* Points strictly nearer than r, and points no farther than r, in Euclidean
\* distance (by integer square roots, not by squaring r).
Nearer(pts, q, r) == {i \in DOMAIN pts : FloorSqrt(SqDist(pts[i], q)) < r}

NotFarther(pts, q, r) == {i \in DOMAIN pts : CeilSqrt(SqDist(pts[i], q)) <= r}

\* C1: the PCLPointCloud constructor yields exactly n points, point i being
\* (ptr[3i], ptr[3i+1], ptr[3i+2]) in buffer order, and reads no coordinate
\* outside ptr[0..3n-1].
C1_CtorConverts ==
  adapter = "PCLPointCloud" =>
    /\ DOMAIN pcl_cloud = 0..(ctor_n - 1)
    /\ Cardinality(DOMAIN pcl_cloud) = ctor_n
    /\ \A i \in 0..(ctor_n - 1) :
         /\ pcl_cloud[i].x = ctor_buf[3 * i]
         /\ pcl_cloud[i].y = ctor_buf[3 * i + 1]
         /\ pcl_cloud[i].z = ctor_buf[3 * i + 2]
    /\ pcl_reads \subseteq 0..(3 * ctor_n - 1)

C1_Witness ==
  /\ adapter = "PCLPointCloud"
  /\ ctor_n = MaxN
  /\ pcl_cloud[0] # pcl_cloud[1]
  /\ pcl_cloud[1].x # pcl_cloud[1].y
  /\ pcl_cloud[1].y # pcl_cloud[1].z
  /\ pcl_reads = 0..(3 * MaxN - 1)

\* C2: build_tree(strategy) with one of the three strategies installs the
\* structure the selector names (KdTree, Octree with resolution 128,
\* BruteForce), and on return its input cloud is the constructor's cloud.
C2_BuildInstalls ==
  (last.op = "PCL::build_tree" /\ last.strategy \in ValidStrategies) =>
    /\ pcl_search.ptr # 0
    /\ last.target = pcl_search.ptr
    /\ pcl_search.kind = KindOf(last.strategy)
    /\ pcl_search.resolution = (IF last.strategy = "octree" THEN 128 ELSE 0)
    /\ pcl_search.input = "_cloud"
    /\ pcl_cloud = ExpectedPoints(ctor_buf, ctor_n)

C2_Witness ==
  /\ last.op = "PCL::build_tree"
  /\ last.strategy = "octree"
  /\ pcl_search.kind = "Octree"
  /\ pcl_search.resolution = 128
  /\ pcl_search.input = "_cloud"
  /\ ctor_n = MaxN

\* C3: NFPointCloud2::radius_search hands the index radius*radius with the
\* query unchanged and returns the library's answer unchanged; so for
\* radius >= 0, over an index built from the buffer as it is, every point
\* nearer than radius is reported and no point farther than radius is.
C3_SquaredRadius ==
  (last.op = "NF::radius_search" /\ last.target # 0) =>
    /\ last.libr = last.r * last.r
    /\ last.libquery = last.query
    /\ last.target = nf_search.ptr
    /\ last.result = last.libret
    /\ last.ret = last.libcount
    /\ (last.r >= 0 /\ nf_search.tree = NFPoints) =>
         /\ Nearer(NFPoints, last.query, last.r) \subseteq Reported(last.result)
         /\ Reported(last.result) \subseteq NotFarther(NFPoints, last.query, last.r)

C3_Witness ==
  /\ last.op = "NF::radius_search"
  /\ last.target # 0
  /\ last.r = 2
  /\ last.libr = 4
  /\ nf_search.tree = NFPoints
  /\ Reported(last.result) = {0, 1}
  /\ \E e \in last.result : e[2] = 3

\* C5: PCLPointCloud::radius_search calls radiusSearch on the installed
\* structure with p and r as given (r not squared) and returns its result
\* unchanged; the answer is the one computed over the constructor's cloud.
C5_PassThrough ==
  (last.op = "PCL::radius_search" /\ last.target # 0) =>
    /\ last.libr = last.r
    /\ last.libquery = last.query
    /\ last.target = pcl_search.ptr
    /\ pcl_search.input = "_cloud"
    /\ last.result = last.libret
    /\ last.ret = last.libcount
    /\ \A e \in last.result :
         /\ e[1] \in 0..(ctor_n - 1)
         /\ e[2] = SqDist(ExpectedPoints(ctor_buf, ctor_n)[e[1]], last.query)
    /\ Nearer(ExpectedPoints(ctor_buf, ctor_n), last.query, last.r)
         \subseteq Reported(last.result)

C5_Witness ==
  /\ last.op = "PCL::radius_search"
  /\ last.target # 0
  /\ last.r = 2
  /\ last.libr = 2
  /\ last.ret = 2
  /\ Reported(last.result) = {0, 1}

\* C6 (as claimed): no adapter operation reaches an error state of its own,
\* such as using an unset search handle, in any sequence of calls.
C6_NoAdapterFault == fault = "none"

SearchOps == {"PCL::radius_search", "NF::radius_search"}

BuildOps == {"PCL::build_tree", "NF::build_tree"}

\* C7: build_tree and radius_search leave the point data as constructed (the
\* cloud's points, NFPointCloud2's data pointer and n), and radius_search
\* leaves the installed search structure as it is.
C7_PointDataUntouched ==
  [][ (last'.op \in SearchOps \cup BuildOps) =>
        /\ pcl_cloud' = pcl_cloud
        /\ nf_data' = nf_data
        /\ nf_n' = nf_n
        /\ (last'.op \in SearchOps => pcl_search' = pcl_search /\ nf_search' = nf_search)
    ]_vars

C7_Witness ==
  /\ last.op = "NF::radius_search"
  /\ last.target # 0
  /\ nf_data = BufAddr
  /\ nf_n = MaxN
  /\ nf_search.leaf = MaxLeaf
  /\ nf_search.ptr = last.target

\* Every installed structure has been given the adapter's points.
HandlesGiven ==
  /\ pcl_search.ptr # 0 =>
       pcl_search.input = "_cloud" /\ pcl_search.kind \in {"KdTree", "Octree", "BruteForce"}
  /\ nf_search.ptr # 0 =>
       nf_search.built /\ nf_search.dataset = "this"

\* C8: once build_tree has returned, the search handle is set and stays set:
\* every later radius_search, after any further calls, runs on a non-null
\* structure that has been given the adapter's points.
C8_HandleStaysSet ==
  [][ /\ HandlesGiven'
      /\ pcl_search.ptr # 0 => pcl_search'.ptr # 0
      /\ nf_search.ptr # 0 => nf_search'.ptr # 0
      /\ (pcl_search.ptr # 0 /\ last'.op = "PCL::radius_search") =>
           last'.target = pcl_search.ptr /\ fault' = fault
      /\ (nf_search.ptr # 0 /\ last'.op = "NF::radius_search") =>
           last'.target = nf_search.ptr /\ fault' = fault
    ]_vars

C8_Witness ==
  /\ last.op = "PCL::radius_search"
  /\ pcl_search.ptr = 2
  /\ last.target = 2
  /\ pcl_search.input = "_cloud"
  /\ fault = "none"

\* C9: the most recent build_tree wins.  Each call with one of the three
\* strategies (or any leaf size) replaces the handle by a new structure of the
\* named kind (a 3-dimensional index with that leaf size, built over the
\* buffer as it is); a PCL build_tree with any other strategy keeps the
\* installed structure; radius_search runs on the handle the last build left.
C9_LastBuildWins ==
  [][ /\ (last'.op = "PCL::build_tree" /\ last'.strategy \in ValidStrategies) =>
           /\ pcl_search'.ptr # 0
           /\ pcl_search'.ptr # pcl_search.ptr
           /\ pcl_search'.kind = KindOf(last'.strategy)
           /\ last'.target = pcl_search'.ptr
      /\ (last'.op = "PCL::build_tree" /\ last'.strategy \notin ValidStrategies) =>
           /\ pcl_search'.ptr = pcl_search.ptr
           /\ pcl_search'.kind = pcl_search.kind
           /\ pcl_search'.resolution = pcl_search.resolution
      /\ last'.op = "NF::build_tree" =>
           /\ nf_search'.ptr # 0
           /\ nf_search'.ptr # nf_search.ptr
           /\ nf_search'.dim = 3
           /\ nf_search'.leaf = last'.leaf
           /\ nf_search'.built
           /\ nf_search'.tree = ExpectedPoints(buf', nf_n')
      /\ (last'.op = "PCL::radius_search" /\ last'.target # 0) =>
           last'.target = pcl_search.ptr /\ pcl_search' = pcl_search
      /\ (last'.op = "NF::radius_search" /\ last'.target # 0) =>
           last'.target = nf_search.ptr /\ nf_search' = nf_search
    ]_vars

C9_Witness ==
  /\ last.op = "PCL::build_tree"
  /\ last.strategy = "bruteforce"
  /\ pcl_search.ptr = 2
  /\ pcl_search.kind = "BruteForce"

\* C10: PCLPointCloud holds a copy of the coordinates made at construction, so
\* overwriting the caller's buffer changes neither its points nor its answers;
\* NFPointCloud2 holds the caller's pointer and n, so its points are the
\* buffer as it is at each access, and overwriting the buffer rebuilds no index.
C10_Ownership ==
  [][ /\ adapter' = "PCLPointCloud" =>
           pcl_cloud' = ExpectedPoints(ctor_buf', ctor_n')
      /\ (last'.op = "PCL::radius_search" /\ last'.target # 0) =>
           \A e \in last'.result :
             e[2] = SqDist(ExpectedPoints(ctor_buf', ctor_n')[e[1]], last'.query)
      /\ adapter' = "NFPointCloud2" =>
           /\ nf_data' = BufAddr
           /\ nf_n' = ctor_n'
           /\ NFPoints' = ExpectedPoints(buf', ctor_n')
      /\ (last'.op = "NF::radius_search" /\ last'.target # 0) =>
           \A e \in last'.result :
             e[2] = SqDist(ExpectedPoints(buf', ctor_n')[e[1]], last'.query)
      /\ last'.op = "write" =>
           /\ pcl_cloud' = pcl_cloud
           /\ pcl_search' = pcl_search
           /\ nf_search' = nf_search
    ]_vars

C10_Witness ==
  /\ adapter = "NFPointCloud2"
  /\ buf # ctor_buf
  /\ nf_data = BufAddr
  /\ nf_search.ptr # 0
  /\ nf_search.tree # NFPoints
  /\ last.op = "NF::radius_search"
  /\ last.target # 0

====
